---------------------------- MODULE Spec2Model ----------------------------
(***************************************************************************)
(* Model of lib/cubecommon.cpp: the CubeMoveSequence operations            *)
(* (MoveToString, InvertedMove, ToString, Inverted) and NChooseK.          *)
(*                                                                         *)
(* A std::string is a sequence of one-character strings, a CubeMove is its *)
(* enumeration ordinal, an int is a signed 32-bit integer.                 *)
(***************************************************************************)
EXTENDS Integers, Sequences, FiniteSets

(* ------------------------------ bounds --------------------------------- *)
\* longest sequence drawn over ElementValues (valid moves or not)
MaxShort == 2
\* longest sequence drawn over SampleMoves
MaxLen == 4
\* how many times Inverted() is chained on its own result
MaxDepth == 2
\* largest argument handed to NChooseK
MaxN == 31

(* --------------------------- enum CubeMove ----------------------------- *)
MOVE_U == 0
MOVE_Up == 1
MOVE_U2 == 2
MOVE_F == 3
MOVE_Fp == 4
MOVE_F2 == 5
MOVE_R == 6
MOVE_Rp == 7
MOVE_R2 == 8
MOVE_B == 9
MOVE_Bp == 10
MOVE_B2 == 11
MOVE_L == 12
MOVE_Lp == 13
MOVE_L2 == 14
MOVE_D == 15
MOVE_Dp == 16
MOVE_D2 == 17

\* the 18 enumerators
ValidMoves == MOVE_U .. MOVE_D2
\* a CubeMove object can also hold a value that is no enumerator: the
\* values of the enumeration are those of the smallest bit-field that holds
\* MOVE_D2
CubeMoveValues == MOVE_U .. 31
\* the values the elements of the short sequences are drawn from: the
\* enumerators and one value that is none
ElementValues == MOVE_U .. (MOVE_D2 + 1)
\* the valid moves the longer sequences are drawn from
SampleMoves == {MOVE_U, MOVE_Up, MOVE_F2, MOVE_R, MOVE_Rp, MOVE_D}

(* ------------------------- MoveToString -------------------------------- *)
MoveToString_noSuffix(move) ==
    CASE move = MOVE_U -> <<"U">>
      [] move = MOVE_Up -> <<"U">>
      [] move = MOVE_U2 -> <<"U", "2">>
      [] move = MOVE_F -> <<"F">>
      [] move = MOVE_Fp -> <<"F", "'">>
      [] move = MOVE_F2 -> <<"F", "2">>
      [] move = MOVE_R -> <<"R">>
      [] move = MOVE_Rp -> <<"R", "'">>
      [] move = MOVE_R2 -> <<"R", "2">>
      [] move = MOVE_B -> <<"B">>
      [] move = MOVE_Bp -> <<"B", "'">>
      [] move = MOVE_B2 -> <<"B", "2">>
      [] move = MOVE_L -> <<"L">>
      [] move = MOVE_Lp -> <<"L", "'">>
      [] move = MOVE_L2 -> <<"L", "2">>
      [] move = MOVE_D -> <<"D">>
      [] move = MOVE_Dp -> <<"D", "'">>
      [] move = MOVE_D2 -> <<"D", "2">>
      [] OTHER -> <<>>

MoveToString(move) ==
    CASE move = MOVE_U -> <<"U">>
      [] move = MOVE_Up -> <<"U", "'">>
      [] move = MOVE_U2 -> <<"U", "2">>
      [] move = MOVE_F -> <<"F">>
      [] move = MOVE_Fp -> <<"F", "'">>
      [] move = MOVE_F2 -> <<"F", "2">>
      [] move = MOVE_R -> <<"R">>
      [] move = MOVE_Rp -> <<"R", "'">>
      [] move = MOVE_R2 -> <<"R", "2">>
      [] move = MOVE_B -> <<"B">>
      [] move = MOVE_Bp -> <<"B", "'">>
      [] move = MOVE_B2 -> <<"B", "2">>
      [] move = MOVE_L -> <<"L">>
      [] move = MOVE_Lp -> <<"L", "'">>
      [] move = MOVE_L2 -> <<"L", "2">>
      [] move = MOVE_D -> <<"D">>
      [] move = MOVE_Dp -> <<"D", "'">>
      [] move = MOVE_D2 -> <<"D", "2">>
      [] OTHER -> <<>>

(* ------------------------- InvertedMove -------------------------------- *)
\* a table with the entries of MOVE_U2 and MOVE_Up exchanged
inverted_swapped ==
    << MOVE_Up, MOVE_U2, MOVE_U,
       MOVE_Fp, MOVE_F, MOVE_F2,
       MOVE_Rp, MOVE_R, MOVE_R2,
       MOVE_Bp, MOVE_B, MOVE_B2,
       MOVE_Lp, MOVE_L, MOVE_L2,
       MOVE_Dp, MOVE_D, MOVE_D2 >>

\* static CubeMove inverted[MOVE_D2 + 1]; entry o of the C++ array is
\* inverted[o + 1] here
inverted ==
    << MOVE_Up, MOVE_U, MOVE_U2,
       MOVE_Fp, MOVE_F, MOVE_F2,
       MOVE_Rp, MOVE_R, MOVE_R2,
       MOVE_Bp, MOVE_B, MOVE_B2,
       MOVE_Lp, MOVE_L, MOVE_L2,
       MOVE_Dp, MOVE_D, MOVE_D2 >>

\* return inverted[move], for a move inside the table
InvertedMove(move) == inverted[move + 1]

\* The values the read inverted[move] can yield.  Outside the table the
\* read is out of bounds: any value of the CubeMove type can come back.
InvertedMoveRead(move) ==
    IF move + 1 \in DOMAIN inverted THEN {InvertedMove(move)}
                                    ELSE CubeMoveValues

(* --------------------------- ToString ---------------------------------- *)
\* one pass of the range-for body over element i
ToStringBody_always(result, i) ==
    (result \o <<" ">>) \o MoveToString(i)

ToStringBody(result, i) ==
    (IF Len(result) > 0 THEN result \o <<" ">> ELSE result) \o MoveToString(i)

RECURSIVE ToStringLoop(_, _, _)
\* the range-for over moves, from position idx on
ToStringLoop(ms, idx, result) ==
    IF idx > Len(ms) THEN result
    ELSE ToStringLoop(ms, idx + 1, ToStringBody(result, ms[idx]))

ToString(ms) == ToStringLoop(ms, 1, <<>>)

(* --------------------------- Inverted ---------------------------------- *)
RECURSIVE InvertedLoop_forward(_, _, _)
InvertedLoop_forward(ms, i, result) ==
    IF i = 0 THEN {result}
    ELSE UNION { InvertedLoop_forward(ms, i - 1, Append(result, m)) :
                    m \in InvertedMoveRead(ms[Len(ms) + 1 - i]) }

RECURSIVE InvertedLoop(_, _, _)
\* the reverse-iterator loop: i is the position *i refers to, 0 is rend();
\* the set holds every sequence the loop can build
InvertedLoop(ms, i, result) ==
    IF i = 0 THEN {result}
    ELSE UNION { InvertedLoop(ms, i - 1, Append(result, m)) :
                    m \in InvertedMoveRead(ms[i]) }

Inverted(ms) == InvertedLoop(ms, Len(ms), <<>>)

(* ------------------------- int arithmetic ------------------------------ *)
INT_MAX == 2147483647
INT_MIN == -INT_MAX - 1

\* a / b of C++ (truncation toward zero), for b > 0
CDiv(a, b) ==
    IF a >= 0 THEN a \div b
    ELSE LET q == -(a + 1)
         IN  -((q \div b) + (IF q % b = b - 1 THEN 1 ELSE 0))

\* does the int product a * b (b >= 0) leave the range of int
MulOverflows(a, b) ==
    \/ /\ b > 0
       /\ a > INT_MAX \div b
    \/ /\ b > 1
       /\ a < -((INT_MAX \div b) + (IF INT_MAX % b = b - 1 THEN 1 ELSE 0))

\* a + b reduced to the 32-bit two's complement range
WrapAdd(a, b) ==
    IF a > 0 /\ b > 0 /\ a > INT_MAX - b
        THEN (a - INT_MAX - 1) + (b - INT_MAX - 1)
    ELSE IF a < 0 /\ b < 0 /\ a < INT_MIN - b
        THEN (a + INT_MAX + 1) + (b + INT_MAX + 1)
    ELSE a + b

RECURSIVE WrapMul(_, _)
\* a * b (b >= 0) reduced to the 32-bit two's complement range
WrapMul(a, b) ==
    IF b = 0 THEN 0
    ELSE LET h == WrapMul(a, b \div 2)
             d == WrapAdd(h, h)
         IN  IF b % 2 = 1 THEN WrapAdd(d, a) ELSE d

\* what a build does with a signed overflow: wrap around, or trap
Builds == {"wrap", "trap"}

(* ---------------------------- NChooseK --------------------------------- *)
SymK_none(nn, kk) == kk

\* if (k > (n / 2)) k = n - k;
SymK(nn, kk) == IF kk > CDiv(nn, 2) THEN nn - kk ELSE kk

LoopCond_inclusive(ii, nn, kk) == ii >= (nn - kk)

\* i > (n - k)
LoopCond(ii, nn, kk) == ii > (nn - kk)

\* result *= i, where the product stays in range or the build wraps
MulStep(res, ii) == WrapMul(res, ii)

DivStep_late(res, den) == CDiv(res, den + 1)

\* result /= denom
DivStep(res, den) == CDiv(res, den)

RECURSIVE NChooseKLoop(_, _, _, _, _, _)
\* the for loop run to its end: the value returned, or a trap
NChooseKLoop(nn, kk, ii, res, den, bld) ==
    IF ~LoopCond(ii, nn, kk) THEN [trap |-> FALSE, value |-> res]
    ELSE IF MulOverflows(res, ii) /\ bld = "trap"
        THEN [trap |-> TRUE, value |-> 0]
    ELSE NChooseKLoop(nn, kk, ii - 1, DivStep(MulStep(res, ii), den),
                      den + 1, bld)

\* NChooseK(n, k) as a function of its arguments and the build
NChooseK(nn, kk, bld) ==
    IF nn < kk THEN [trap |-> FALSE, value |-> 0]
    ELSE NChooseKLoop(nn, SymK(nn, kk), nn, 1, 1, bld)

(* ------------------------------ state ---------------------------------- *)
VARIABLES
    fn,      \* the function that is called
    pc,      \* where the call stands
    move,    \* the CubeMove argument
    moves,   \* this->moves of the CubeMoveSequence the method is called on
    text,    \* the std::string returned
    rmove,   \* the CubeMove returned
    rseq,    \* the moves of the CubeMoveSequence returned
    depth,   \* how many times Inverted() has been applied, starting at moves
    build,   \* what the build does on signed overflow
    n,       \* NChooseK: parameter n
    k_in,    \* NChooseK: parameter k as passed
    k,       \* NChooseK: parameter k as the body sees it
    i,       \* NChooseK: loop variable
    result,  \* NChooseK: local result
    denom,   \* NChooseK: local denom
    ret,     \* NChooseK: value returned
    ub       \* the call has executed undefined behaviour

vars == << fn, pc, move, moves, text, rmove, rseq, depth, build,
           n, k_in, k, i, result, denom, ret, ub >>

moveVars == << move, moves, text, rmove, rseq, depth >>
chooseVars == << n, k_in, k, i, result, denom, ret, build >>

RECURSIVE SeqsUpTo(_, _)
\* the sequences over S of length at most len
SeqsUpTo(S, len) ==
    IF len = 0 THEN {<<>>}
    ELSE LET shorter == SeqsUpTo(S, len - 1)
         IN  shorter \cup { Append(s, x) : s \in shorter, x \in S }

\* the move sequences a call is made on
InputSequences == SeqsUpTo(ElementValues, MaxShort) \cup SeqsUpTo(SampleMoves, MaxLen)

AllValid(ms) == \A j \in 1..Len(ms) : ms[j] \in ValidMoves

InitOutputs ==
    /\ pc = "call"
    /\ text = <<>> /\ rmove = MOVE_U /\ rseq = <<>> /\ depth = 0
    /\ k = 0 /\ i = 0 /\ result = 0 /\ denom = 0 /\ ret = 0
    /\ ub = FALSE

InitMoveCall ==
    /\ fn \in {"MoveToString", "InvertedMove"}
    /\ move \in CubeMoveValues
    /\ moves = <<>>
    /\ n = 0 /\ k_in = 0 /\ build = "wrap"
    /\ InitOutputs

InitSequenceCall ==
    /\ fn \in {"ToString", "Inverted"}
    /\ moves \in InputSequences
    /\ move = MOVE_U
    /\ n = 0 /\ k_in = 0 /\ build = "wrap"
    /\ InitOutputs

InitNChooseK ==
    /\ fn = "NChooseK"
    /\ n \in 0..MaxN /\ k_in \in 0..MaxN
    /\ build \in Builds
    /\ move = MOVE_U /\ moves = <<>>
    /\ InitOutputs

Init == InitMoveCall \/ InitSequenceCall \/ InitNChooseK

(* ----------------------------- actions --------------------------------- *)
CallMoveToString ==
    /\ fn = "MoveToString" /\ pc = "call"
    /\ text' = MoveToString(move)
    /\ pc' = "done"
    /\ UNCHANGED << fn, move, moves, rmove, rseq, depth, ub >>
    /\ UNCHANGED chooseVars

CallInvertedMove ==
    /\ fn = "InvertedMove" /\ pc = "call"
    /\ rmove' \in InvertedMoveRead(move)
    /\ ub' = (move \notin ValidMoves)
    /\ pc' = "done"
    /\ UNCHANGED << fn, move, moves, text, rseq, depth >>
    /\ UNCHANGED chooseVars

CallToString ==
    /\ fn = "ToString" /\ pc = "call"
    /\ text' = ToString(moves)
    /\ pc' = "done"
    /\ UNCHANGED << fn, move, moves, rmove, rseq, depth, ub >>
    /\ UNCHANGED chooseVars

\* Inverted() on the sequence itself, then on the sequence it returned;
\* nothing is called on what an out-of-bounds read has produced
CallInverted ==
    /\ fn = "Inverted" /\ depth < MaxDepth
    /\ ~ub
    /\ LET self == IF depth = 0 THEN moves ELSE rseq
       IN  /\ rseq' \in Inverted(self)
           /\ ub' = (ub \/ ~AllValid(self))
    /\ depth' = depth + 1
    /\ pc' = "done"
    /\ UNCHANGED << fn, move, moves, text, rmove >>
    /\ UNCHANGED chooseVars

\* lines 90-95: the early return, the substitution, the locals
NChooseKEnter ==
    /\ fn = "NChooseK" /\ pc = "call"
    /\ IF n < k_in
          THEN /\ ret' = 0
               /\ pc' = "done"
               /\ UNCHANGED << k, i, result, denom >>
          ELSE /\ k' = SymK(n, k_in)
               /\ result' = 1
               /\ denom' = 1
               /\ i' = n
               /\ pc' = "loop"
               /\ ret' = ret
    /\ UNCHANGED << fn, n, k_in, build, ub >>
    /\ UNCHANGED moveVars

\* line 98, after the loop condition held
NChooseKMul ==
    /\ fn = "NChooseK" /\ pc = "loop"
    /\ LoopCond(i, n, k)
    /\ IF MulOverflows(result, i)
          THEN /\ ub' = TRUE
               /\ \/ build = "wrap" /\ result' = MulStep(result, i) /\ pc' = "div"
                  \/ build = "trap" /\ result' = result /\ pc' = "trap"
          ELSE /\ result' = MulStep(result, i)
               /\ pc' = "div"
               /\ ub' = ub
    /\ UNCHANGED << fn, n, k_in, k, i, denom, ret, build >>
    /\ UNCHANGED moveVars

\* line 99 and the i-- of line 96
NChooseKDiv ==
    /\ fn = "NChooseK" /\ pc = "div"
    /\ result' = DivStep(result, denom)
    /\ denom' = denom + 1
    /\ i' = i - 1
    /\ pc' = "loop"
    /\ UNCHANGED << fn, n, k_in, k, ret, build, ub >>
    /\ UNCHANGED moveVars

\* line 101, after the loop condition failed
NChooseKReturn ==
    /\ fn = "NChooseK" /\ pc = "loop"
    /\ ~LoopCond(i, n, k)
    /\ ret' = result
    /\ pc' = "done"
    /\ UNCHANGED << fn, n, k_in, k, i, result, denom, build, ub >>
    /\ UNCHANGED moveVars

Next ==
    \/ CallMoveToString
    \/ CallInvertedMove
    \/ CallToString
    \/ CallInverted
    \/ NChooseKEnter
    \/ NChooseKMul
    \/ NChooseKDiv
    \/ NChooseKReturn

Spec == Init /\ [][Next]_vars

(* ------------------- reference notions for the claims ------------------ *)
Min(a, b) == IF a <= b THEN a ELSE b

\* the row of Pascal's triangle below the row prev
PascalBelow(prev) ==
    [j \in 1..(Len(prev) + 1) |->
        (IF j > 1 THEN prev[j - 1] ELSE 0) + (IF j <= Len(prev) THEN prev[j] ELSE 0)]

RECURSIVE PascalRow(_)
\* row m of Pascal's triangle, entry j + 1 is C(m, j)
PascalRow(m) ==
    IF m = 0 THEN <<1>>
    ELSE CHOOSE row \in {PascalBelow(prev) : prev \in {PascalRow(m - 1)}} : TRUE

Pascal == [m \in 0..MaxN |-> PascalRow(m)]

\* the binomial coefficient C(m, j), 0 <= m <= MaxN
Binomial(m, j) == IF j < 0 \/ j > m THEN 0 ELSE Pascal[m][j + 1]

Faces == <<"U", "F", "R", "B", "L", "D">>
Suffixes == << <<>>, <<"'">>, <<"2">> >>

\* the token of the move with ordinal o: face letter, then suffix
Token(o) == <<Faces[(o \div 3) + 1]>> \o Suffixes[(o % 3) + 1]

RECURSIVE JoinTokens(_)
\* the tokens of ms with one space between neighbours
JoinTokens(ms) ==
    IF Len(ms) = 0 THEN <<>>
    ELSE IF Len(ms) = 1 THEN Token(ms[1])
    ELSE Token(Head(ms)) \o <<" ">> \o JoinTokens(Tail(ms))

Spaces(str) == Cardinality({j \in 1..Len(str) : str[j] = " "})

(* ------------------------------ claims --------------------------------- *)

\* C1: Inverted() of a sequence of valid moves has the length of the
\* sequence and its j-th element is InvertedMove of the element at
\* position n + 1 - j; [MOVE_R, MOVE_U] gives [MOVE_Up, MOVE_Rp].
C1_ReconstructionLaw ==
    (fn = "Inverted" /\ depth = 1 /\ AllValid(moves)) =>
        /\ Len(rseq) = Len(moves)
        /\ \A j \in 1..Len(moves) :
              rseq[j] = InvertedMove(moves[Len(moves) + 1 - j])
        /\ (moves = <<MOVE_R, MOVE_U>> => rseq = <<MOVE_Up, MOVE_Rp>>)

C1_Witness ==
    /\ fn = "Inverted" /\ depth = 1
    /\ moves = <<MOVE_R, MOVE_U, MOVE_F2>>
    /\ rseq = <<MOVE_F2, MOVE_Up, MOVE_Rp>>

\* C2: Inverted() keeps the length, and applied twice to a sequence of
\* valid moves (the empty one and the one-move sequences included) it gives
\* the sequence back.
C2_Involution ==
    (fn = "Inverted" /\ depth > 0 /\ AllValid(moves)) =>
        /\ Len(rseq) = Len(moves)
        /\ (depth % 2 = 0 => rseq = moves)

C2_Witness ==
    /\ fn = "Inverted" /\ depth = 2
    /\ moves = <<MOVE_Up, MOVE_F2, MOVE_R>>
    /\ rseq = moves

\* C3: InvertedMove of the valid move with ordinal o is the move with
\* ordinal 3 * (o div 3) + r, r = 1, 0, 2 for o mod 3 = 0, 1, 2.
C3_InvertedMoveTable ==
    (fn = "InvertedMove" /\ pc = "done" /\ move \in ValidMoves) =>
        rmove = 3 * (move \div 3) +
                (CASE move % 3 = 0 -> 1 [] move % 3 = 1 -> 0 [] OTHER -> 2)

C3_Witness ==
    fn = "InvertedMove" /\ pc = "done" /\ move = MOVE_Lp /\ rmove = MOVE_L

\* C4: ToString() of a sequence of valid moves is its tokens in order with
\* exactly one space between neighbours (n - 1 spaces for n >= 1), the
\* empty string for the empty sequence, and "R U R' U'" for
\* [MOVE_R, MOVE_U, MOVE_Rp, MOVE_Up].
C4_JoinedBySingleSpace ==
    (fn = "ToString" /\ pc = "done" /\ AllValid(moves)) =>
        /\ text = JoinTokens(moves)
        /\ (Len(moves) >= 1 => Spaces(text) = Len(moves) - 1)
        /\ (moves = <<>> => text = <<>>)
        /\ (moves = <<MOVE_R, MOVE_U, MOVE_Rp, MOVE_Up>> =>
               text = <<"R", " ", "U", " ", "R", "'", " ", "U", "'">>)

C4_Witness ==
    /\ fn = "ToString" /\ pc = "done"
    /\ moves = <<MOVE_R, MOVE_U, MOVE_Rp, MOVE_Up>>
    /\ text = <<"R", " ", "U", " ", "R", "'", " ", "U", "'">>

\* C5: the string ToString() returns neither begins nor ends with a space,
\* whatever values the sequence holds.
C5_NoLeadingOrTrailingSpace ==
    (fn = "ToString" /\ pc = "done" /\ Len(text) > 0) =>
        (text[1] # " " /\ text[Len(text)] # " ")

\* C6: MoveToString of the valid move with ordinal o is the face letter at
\* position o div 3 of U, F, R, B, L, D followed by nothing, ' or 2 for
\* o mod 3 = 0, 1, 2: a non-empty token no other valid move has; of any
\* other value it is the empty string.
C6_NotationTable ==
    (fn = "MoveToString" /\ pc = "done") =>
        IF move \in ValidMoves
            THEN /\ text = Token(move)
                 /\ Len(text) > 0
                 /\ \A other \in ValidMoves \ {move} : MoveToString(other) # text
            ELSE text = <<>>

C6_Witness ==
    fn = "MoveToString" /\ pc = "done" /\ move = MOVE_Bp /\ text = <<"B", "'">>

\* C7: where no product leaves the int range, NChooseK(n, k) returns
\* C(n, k) for 0 <= k <= n (10 for (5, 2), 1 for k = 0), and it returns 0
\* for 0 <= n < k.
C7_BinomialCoefficient ==
    (fn = "NChooseK" /\ pc = "done" /\ ~ub) =>
        /\ ret = Binomial(n, k_in)
        /\ (n < k_in => ret = 0)
        /\ (k_in = 0 => ret = 1)
        /\ (n = 5 /\ k_in = 2 => ret = 10)

C7_Witness ==
    fn = "NChooseK" /\ pc = "done" /\ ~ub /\ n = 5 /\ k_in = 2 /\ ret = 10

\* C8: for 0 <= k <= n, NChooseK(n, k) returns what NChooseK(n, n - k)
\* returns: after the substitution both run the loop with min(k, n - k),
\* for min(k, n - k) iterations.
C8_Symmetry ==
    (fn = "NChooseK" /\ k_in <= n) =>
        /\ (pc = "done" =>
               /\ NChooseK(n, n - k_in, build) = [trap |-> FALSE, value |-> ret]
               /\ denom - 1 = Min(k_in, n - k_in))
        /\ (pc = "trap" => NChooseK(n, n - k_in, build).trap)
        /\ (pc \notin {"call"} => k = Min(k_in, n - k_in))

C8_Witness ==
    fn = "NChooseK" /\ pc = "done" /\ n = 7 /\ k_in = 5 /\ k = 2 /\ ret = 21

\* C9: for 0 <= k <= n, while no product has left the int range, the
\* j-th iteration runs with i = n - j + 1 and denom = j, its product is
\* divisible by denom, it leaves result = C(n, j) and denom = j + 1, and
\* the loop ends after min(k, n - k) iterations.
C9_ExactDivision ==
    (fn = "NChooseK" /\ k_in <= n /\ ~ub) =>
        /\ (pc = "div" =>
               /\ i = n - denom + 1
               /\ result % denom = 0
               /\ denom <= Min(k_in, n - k_in))
        /\ (pc = "loop" =>
               /\ i = n - denom + 1
               /\ result = Binomial(n, denom - 1))
        /\ (pc = "done" => denom - 1 = Min(k_in, n - k_in))

C9_Witness ==
    /\ fn = "NChooseK" /\ pc = "div" /\ ~ub
    /\ n = 7 /\ k_in = 3 /\ denom = 3 /\ i = 5 /\ result = 105

\* does kk * C(nn, kk) fit in an int
PeakFits(nn, kk) == kk = 0 \/ Binomial(nn, kk) <= INT_MAX \div kk

\* C10: for 0 <= k <= n and k' = min(k, n - k) >= 1, result never exceeds
\* k' * C(n, k'), the value the multiplication of the last iteration
\* leaves; NChooseK returns C(n, k) when k' * C(n, k') fits in an int, and
\* its multiplication overflows when it does not, also where C(n, k) fits.
C10_PeakValue ==
    (fn = "NChooseK" /\ k_in <= n /\ Min(k_in, n - k_in) >= 1) =>
        LET kp == Min(k_in, n - k_in)
        IN  IF PeakFits(n, kp)
                THEN /\ ~ub
                     /\ result <= kp * Binomial(n, kp)
                     /\ (pc = "div" /\ denom = kp =>
                            result = kp * Binomial(n, kp))
                     /\ (pc = "done" => ret = Binomial(n, k_in))
                     /\ pc # "trap"
                ELSE /\ (pc \in {"done", "trap"} => ub)
                     /\ (~ub => result <= INT_MAX)

C10_Witness ==
    /\ fn = "NChooseK" /\ pc = "done" /\ ub
    /\ n = 30 /\ k_in = 15
    /\ Binomial(n, k_in) <= INT_MAX
    /\ ret # Binomial(n, k_in)

=============================================================================
